---- MODULE Spec2Model ----
(***************************************************************************)
(* A model of FuXi's top-down SPARQL entailing store                       *)
(* (lib/SPARQL/BackwardChainingStore.py) and of the construction of        *)
(* sideways-information-passing graphs                                     *)
(* (lib/Rete/SidewaysInformationPassing.py).                               *)
(*                                                                         *)
(* Six specifications share the module:                                    *)
(*   SpecConj   one run of conjunctiveSipStrategy over a goal iterator,    *)
(*              and a batch_unify iterator over the same goals             *)
(*   SpecSip    one call of BuildNaturalSIP on a clause (SpecSipLive: the  *)
(*              call runs on until it returns or raises)                   *)
(*   SpecGraph  a SIP graph built with SIPGraphArc, read by validSip       *)
(*   SpecPrep   the hybrid predicate preparation of a store's rule set     *)
(*   SpecTerm   GetArgs on one literal                                     *)
(*   SpecAsk    one call of sparql_query with an ASK query                 *)
(***************************************************************************)
EXTENDS Integers, Sequences, FiniteSets, TLC

(***************************************************************************)
(* Bounds of the model.                                                    *)
(***************************************************************************)
\* longest conjunction of goals handed to conjunctiveSipStrategy
MaxGoals == 3
\* longest clause body drawn from the literal pool
MaxBody == 3
\* most arcs added to one graph in SpecGraph
MaxArcs == 2
\* the largest rule set a store is constructed with
MaxRules == 2

(***************************************************************************)
(* Terms (rdflib): a term is a Variable, a BNode or a constant (URIRef).   *)
(***************************************************************************)
VariableTerms == {"?x", "?y", "X", "Y", "Z", "Z1", "Z2", "Z3", "Z4"}
BNodeTerms == {"_:e"}
RDFtype == "rdf:type"

IsVariable(t) == t \in VariableTerms
IsVariableOrBNode(t) == t \in VariableTerms \cup BNodeTerms

Max(a, b) == IF a >= b THEN a ELSE b
Range(s) == {s[i] : i \in DOMAIN s}

RECURSIVE SetToSeq(_)
\* the iteration order of a result set: one fixed order per set
SetToSeq(S) ==
  IF S = {} THEN << >>
  ELSE LET x == CHOOSE y \in S : TRUE IN << x >> \o SetToSeq(S \ {x})

(***************************************************************************)
(* Literals (FuXi.Horn.PositiveConditions.Uniterm): an operator, a list of *)
(* arguments and the negation-as-failure mark.  A type triple keeps        *)
(* rdf:type as op and the class as its last argument.                      *)
(***************************************************************************)
Uniterm(op, arg, naf) == [op |-> op, arg |-> arg, naf |-> naf]

GetOp(term) ==
  IF term.op = RDFtype THEN term.arg[Len(term.arg)] ELSE term.op

SetOp(term, value) ==
  IF term.op = RDFtype
  THEN [term EXCEPT !.arg[Len(term.arg)] = value]
  ELSE [term EXCEPT !.op = value]

GetArgs(term, secondOrder) ==
  IF term.op = RDFtype
  THEN IF secondOrder /\ IsVariableOrBNode(term.arg[Len(term.arg)])
       THEN term.arg
       ELSE << term.arg[1] >>
  ELSE IF IsVariableOrBNode(term.op)
       THEN << term.op >> \o term.arg
       ELSE term.arg

GetVariables(term, secondOrder) ==
  SelectSeq(GetArgs(term, secondOrder), IsVariable)

BuildUnitermFromTuple(tp) == Uniterm(tp[2], << tp[1], tp[3] >>, FALSE)
ToRDFTuple(lit) == << lit.arg[1], lit.op, lit.arg[2] >>

VARIABLES
  \* ---- TopDownSPARQLEntailingStore and one run of conjunctiveSipStrategy
  derivedPredicates,  \* self.derivedPredicates
  hybridPredicates,   \* self.hybridPredicates
  edb,                \* the base facts of self.edb
  entailed,           \* the derived facts the decision procedure proves
  queryNetworks,      \* self.queryNetworks
  goals,              \* the list behind iter(goals)
  iters,              \* the iterator objects: the list iterator and tee objects
  stack,              \* the active generator frames of conjunctiveSipStrategy
  out,                \* the environments yielded to the consumer, in order
  \* ---- one call of BuildNaturalSIP, and a SIP graph
  clause,             \* clause.head, clause.body, isinstance(clause.body, And)
  adornment,          \* adornedHead.adornment
  ignoreUnboundDPreds,
  derivedPreds,
  pc,                 \* where the call stands
  sips,               \* what the generator findFullSip(...) yields, in order
  sipIdx,             \* how many orderings next(sips) has taken
  sip,                \* the ordering being folded
  bodyOrder,
  sipOrder,           \* sipGraph.sipOrder
  sipGraph,           \* the triples of the graph
  bn,                 \* BNodes coined so far
  isHead,             \* the literal objects carrying the attribute isHead
  exc,                \* the exception that left the call
  arcLog,             \* the SIPGraphArc objects constructed on the graph
  hybridPreds2Replace,\* the parameter of BuildNaturalSIP: None or a collection
  occurLookup,        \* the dict getOccurrenceId fills: occurrence -> operator
  \* ---- the rule sets of a store, and calls of single functions
  ruleHeap,           \* the clause objects, by identity
  callerIdb,          \* the caller's rule set: the clause objects it holds
  idb,                \* self.idb: the clause objects it holds
  callArg,            \* the arguments of the function called
  callRet,            \* what the calls made so far returned, in order
  batch,              \* the iterator batch_unify returned: where it stands,
                      \* what it yielded or raised, what it has yet to yield
  batch_unification,  \* self.batch_unification
  ask                 \* one call of sparql_query with an ASK query: the derived
                      \* literals evaluated, the answer, the exception raised

conjVars == << derivedPredicates, hybridPredicates, edb, entailed,
               queryNetworks, goals, iters, stack, out >>
sipVars == << clause, adornment, ignoreUnboundDPreds, derivedPreds, pc, sips,
              sipIdx, sip, bodyOrder, sipOrder, sipGraph, bn, isHead, exc,
              arcLog >>
extVars == << hybridPreds2Replace, occurLookup, ruleHeap, callerIdb, idb,
              callArg, callRet, batch, batch_unification, ask >>
vars == << conjVars, sipVars, extVars >>

\* what the steps of each specification leave alone
ConjRest ==
  /\ UNCHANGED << derivedPredicates, hybridPredicates, edb, entailed, goals >>
  /\ UNCHANGED sipVars
  /\ UNCHANGED extVars
SipRest ==
  /\ UNCHANGED << clause, adornment, ignoreUnboundDPreds, derivedPreds, arcLog >>
  /\ UNCHANGED conjVars
  /\ UNCHANGED extVars
GraphRest ==
  /\ UNCHANGED << clause, adornment, ignoreUnboundDPreds, derivedPreds, pc,
                  sips, sipIdx, sip, bodyOrder, sipOrder, isHead, exc >>
  /\ UNCHANGED conjVars
  /\ UNCHANGED << hybridPreds2Replace, ruleHeap, callerIdb, idb, callArg,
                  callRet, batch, batch_unification, ask >>

(***************************************************************************)
(* Binding environments: dicts from Variables to constants.                *)
(***************************************************************************)
EmptyEnv == [v \in {} |-> "a"]

\* item = {}; item.update(row), without item.update(bindings)
UpdateRowOnly(row, bindings) == row

\* item = {}; item.update(row); item.update(bindings)
UpdateRowWithBindings(row, bindings) ==
  [v \in DOMAIN row \cup DOMAIN bindings |->
     IF v \in DOMAIN bindings THEN bindings[v] ELSE row[v]]

\* FuXi.Rete.TopDown.mergeMappings1To2: the keys of both, mapping2's values
\* (the strategy only merges answers over variables the bindings leave free)
mergeMappings1To2(mapping1, mapping2) ==
  [v \in DOMAIN mapping1 \cup DOMAIN mapping2 |->
     IF v \in DOMAIN mapping2 THEN mapping2[v] ELSE mapping1[v]]

\* a pattern with the bindings inlined (EDBQuery(..., bindings=bindings))
Ground(tp, bindings) ==
  [i \in 1..3 |-> IF tp[i] \in DOMAIN bindings THEN bindings[tp[i]] ELSE tp[i]]

FreeVars(tp) == {tp[i] : i \in {j \in 1..3 : IsVariable(tp[j])}}

\* the substitutions of tp's variables that turn it into a fact of `facts`
Solutions(tp, facts) ==
  {f \in [FreeVars(tp) -> {"a", "b"}] : Ground(tp, f) \in facts}

\* EDBQuery([lit], edb, bindings).evaluate(): an ASK answer for a ground
\* query, the list of solution rows otherwise
EDBQueryEvaluate(tp, bindings, facts) ==
  LET q == Ground(ToRDFTuple(BuildUnitermFromTuple(tp)), bindings) IN
  IF FreeVars(q) = {}
  THEN [isBool |-> TRUE, val |-> q \in facts, rows |-> << >>]
  ELSE [isBool |-> FALSE, val |-> FALSE, rows |-> SetToSeq(Solutions(q, facts))]

\* BackwardFixpointProcedure: answers() for a ground goal, goalSolutions for
\* an open one
BFPAnswers(tp, facts) == tp \in facts
BFPGoalSolutions(tp, facts) == SetToSeq(Solutions(tp, facts))

(***************************************************************************)
(* TopDownSPARQLEntailingStore                                             *)
(***************************************************************************)
derivedPredicateFromTriple(triple, dPreds, hPreds) ==
  LET p == triple[2]
      o == triple[3] IN
  IF p \in dPreds \/ p \in hPreds THEN p
  ELSE IF p = RDFtype /\ o # p /\ (o \in dPreds \/ o \in hPreds) THEN o
  ELSE "None"

\* a store that leaves every goal as it is
NoQueryPreparation(tp, hPreds) == tp

hybridPredQueryPreparation(tp, hPreds) ==
  LET lit == BuildUnitermFromTuple(tp)
      op == GetOp(lit) IN
  IF op \in hPreds THEN ToRDFTuple(SetOp(lit, op \o "_derived")) ELSE tp

\* invokeDecisionProcedure yielding rt after the goal solutions as well
invokeDecisionProcedureAlsoRt(tp, facts) ==
  [i \in 1..Len(BFPGoalSolutions(tp, facts)) |->
     [isDict |-> TRUE, val |-> TRUE, env |-> BFPGoalSolutions(tp, facts)[i]]]
  \o << [isDict |-> FALSE, val |-> BFPAnswers(tp, facts), env |-> EmptyEnv] >>

\* the items invokeDecisionProcedure yields for goal tp
invokeDecisionProcedure(tp, facts) ==
  LET isNotGround == \E i \in 1..3 : IsVariable(tp[i]) IN
  IF isNotGround
  THEN [i \in 1..Len(BFPGoalSolutions(tp, facts)) |->
          [isDict |-> TRUE, val |-> TRUE, env |-> BFPGoalSolutions(tp, facts)[i]]]
  ELSE << [isDict |-> FALSE, val |-> BFPAnswers(tp, facts), env |-> EmptyEnv] >>

(***************************************************************************)
(* Iterators.  iters[1] is iter(goals); the others are itertools.tee       *)
(* objects, which all read the one buffer filled from iters[1].  pos is    *)
(* the number of goals the iterator has handed out.                        *)
(***************************************************************************)
Exhausted(its, it) == its[it].pos >= Len(goals)

\* next(it): the iterator hands out goals[pos + 1]; a tee object that runs
\* past the buffer pulls the goal from the list iterator
AfterNext(its, it) ==
  [i \in DOMAIN its |->
     IF i = it THEN [its[i] EXCEPT !.pos = @ + 1]
     ELSE IF i = 1 THEN [its[i] EXCEPT !.pos = Max(@, its[it].pos + 1)]
     ELSE its[i]]

\* the recursion of every row handed goalsRemaining itself, as the derived
\* branch does
TeeCopiesShared(its, it, n) == [k \in 1..n |-> it]

\* itertools.tee(it, n): n independent iterators over what `it` has left.
\* Of a tee object the first is the object itself and the rest are copies.
TeeCopies(its, it, n) ==
  IF n = 0 THEN << >>
  ELSE IF its[it].kind = "tee"
       THEN << it >> \o [k \in 1..(n - 1) |-> Len(its) + k]
       ELSE [k \in 1..n |-> Len(its) + k]

TeeIters(its, it, n) ==
  LET fresh == IF n = 0 THEN 0
               ELSE IF its[it].kind = "tee" THEN n - 1 ELSE n IN
  its \o [k \in 1..fresh |-> [kind |-> "tee", pos |-> its[it].pos]]

(***************************************************************************)
(* conjunctiveSipStrategy, a generator: every call is a frame, and what a  *)
(* frame yields goes through its callers to the consumer (out).  proved    *)
(* and outAtCall are history fields: the goals taken and evaluated         *)
(* successfully on the way to the frame, and Len(out) when it was called.  *)
(***************************************************************************)
Frame(it, bindings, proved) ==
  [it |-> it, bindings |-> bindings, pc |-> "start", tpIdx |-> 0,
   rows |-> << >>, answers |-> << >>, copies |-> << >>, idx |-> 0,
   proved |-> proved, outAtCall |-> Len(out)]

Top == stack[Len(stack)]
Pop == SubSeq(stack, 1, Len(stack) - 1)
ReplaceTop(f) == [stack EXCEPT ![Len(stack)] = f]
Running == pc = "conj" /\ stack # << >>
\* tp = next(goalsRemaining)
NextGoalIdx == iters[Top.it].pos + 1
NextGoal == goals[NextGoalIdx]
Yield(env, proved) == Append(out, [env |-> env, proved |-> proved])

\* except StopIteration: yield bindings
StopIterationStep ==
  /\ ConjRest
  /\ Running /\ Top.pc = "start"
  /\ Exhausted(iters, Top.it)
  /\ out' = Yield(Top.bindings, Top.proved)
  /\ stack' = Pop
  /\ UNCHANGED << iters, queryNetworks >>

IsBaseGoal ==
  /\ Running /\ Top.pc = "start"
  /\ ~Exhausted(iters, Top.it)
  /\ derivedPredicateFromTriple(NextGoal, derivedPredicates, hybridPredicates) = "None"

\* if isinstance(rt, bool) and rt: yield bindings
BaseGroundTrueStep ==
  /\ ConjRest
  /\ IsBaseGoal
  /\ LET rt == EDBQueryEvaluate(NextGoal, Top.bindings, edb) IN
       /\ rt.isBool /\ rt.val
       /\ out' = Yield(Top.bindings, Top.proved \cup {NextGoalIdx})
  /\ iters' = AfterNext(iters, Top.it)
  /\ stack' = Pop
  /\ UNCHANGED queryNetworks

\* a ground base query answered false: the generator ends
BaseGroundFalseStep ==
  /\ ConjRest
  /\ IsBaseGoal
  /\ LET rt == EDBQueryEvaluate(NextGoal, Top.bindings, edb) IN
       rt.isBool /\ ~rt.val
  /\ iters' = AfterNext(iters, Top.it)
  /\ stack' = Pop
  /\ UNCHANGED << out, queryNetworks >>

\* elif not isinstance(rt, bool): rt = list(rt); remaining_goals = tee(...)
BaseRowsStep ==
  /\ ConjRest
  /\ IsBaseGoal
  /\ LET rt == EDBQueryEvaluate(NextGoal, Top.bindings, edb)
         taken == AfterNext(iters, Top.it) IN
       /\ ~rt.isBool
       /\ iters' = TeeIters(taken, Top.it, Len(rt.rows))
       /\ stack' = ReplaceTop([Top EXCEPT
                      !.pc = "rows", !.tpIdx = NextGoalIdx, !.rows = rt.rows,
                      !.copies = TeeCopies(taken, Top.it, Len(rt.rows))])
  /\ UNCHANGED << out, queryNetworks >>

\* for idx in range(len(rt)): ... self.conjunctiveSipStrategy(
\*     remaining_goals[idx], factGraph, item)
NextRowStep ==
  /\ ConjRest
  /\ Running /\ Top.pc = "rows" /\ Top.idx < Len(Top.rows)
  /\ stack' = Append(ReplaceTop([Top EXCEPT !.idx = @ + 1]),
                     Frame(Top.copies[Top.idx + 1],
                           UpdateRowWithBindings(Top.rows[Top.idx + 1], Top.bindings),
                           Top.proved \cup {Top.tpIdx}))
  /\ UNCHANGED << iters, out, queryNetworks >>

RowsDoneStep ==
  /\ ConjRest
  /\ Running /\ Top.pc = "rows" /\ Top.idx = Len(Top.rows)
  /\ stack' = Pop
  /\ UNCHANGED << iters, out, queryNetworks >>

\* the derived (or hybrid) goal: the query is prepared and the decision
\* procedure invoked; self.queryNetworks.append((bfp.metaInterpNetwork, tp))
DerivedGoalStep ==
  /\ ConjRest
  /\ Running /\ Top.pc = "start"
  /\ ~Exhausted(iters, Top.it)
  /\ derivedPredicateFromTriple(NextGoal, derivedPredicates, hybridPredicates) # "None"
  /\ LET queryLit == BuildUnitermFromTuple(NextGoal)
         bound == IF Top.bindings # EmptyEnv
                  THEN Ground(ToRDFTuple(queryLit), Top.bindings)
                  ELSE NextGoal
         tp == hybridPredQueryPreparation(bound, hybridPredicates) IN
       /\ queryNetworks' = Append(queryNetworks, tp)
       /\ stack' = ReplaceTop([Top EXCEPT
                      !.pc = "answers", !.tpIdx = NextGoalIdx,
                      !.answers = invokeDecisionProcedure(tp, entailed)])
  /\ iters' = AfterNext(iters, Top.it)
  /\ UNCHANGED out

\* for nextAnswer, ns in self.invokeDecisionProcedure(...): a dict is merged
\* with the bindings, a proved ground goal passes the bindings on; either way
\* the recursion is handed goalsRemaining itself
NextAnswerStep ==
  /\ ConjRest
  /\ Running /\ Top.pc = "answers" /\ Top.idx < Len(Top.answers)
  /\ LET nextAnswer == Top.answers[Top.idx + 1]
         parent == ReplaceTop([Top EXCEPT !.idx = @ + 1]) IN
       stack' =
         IF nextAnswer.isDict
         THEN Append(parent, Frame(Top.it,
                                   mergeMappings1To2(Top.bindings, nextAnswer.env),
                                   Top.proved \cup {Top.tpIdx}))
         ELSE IF nextAnswer.val
         THEN Append(parent, Frame(Top.it, Top.bindings,
                                   Top.proved \cup {Top.tpIdx}))
         ELSE parent
  /\ UNCHANGED << iters, out, queryNetworks >>

AnswersDoneStep ==
  /\ ConjRest
  /\ Running /\ Top.pc = "answers" /\ Top.idx = Len(Top.answers)
  /\ stack' = Pop
  /\ UNCHANGED << iters, out, queryNetworks >>

(***************************************************************************)
(* Rule sets.  A clause is an object: ruleHeap[id] is what the object      *)
(* holds now, and a rule set holds ids.  A store is constructed with the   *)
(* caller's rule set; self.idb is that object until __init__ replaces it.  *)
(***************************************************************************)
\* a list of the same clause objects, as list(self.idb) would build
ShallowCopy(heap, ids) == [heap |-> heap, ids |-> ids]

\* list(map(copy.deepcopy, self.idb)): a new object per clause
DeepCopy(heap, ids) ==
  [heap |-> heap \o [i \in 1..Len(ids) |-> heap[ids[i]]],
   ids |-> [i \in 1..Len(ids) |-> Len(heap) + i]]

Derived(p) == p \o "_derived"

\* ReplaceHybridPredcates on one clause: every literal over a hybrid
\* predicate, head or body, gets the _derived operator
ReplaceInLiteral(lit, hPreds) ==
  IF GetOp(lit) \in hPreds THEN SetOp(lit, Derived(GetOp(lit))) ELSE lit
ReplaceHybridPredcates(rule, hPreds) ==
  [head |-> ReplaceInLiteral(rule.head, hPreds),
   body |-> [i \in DOMAIN rule.body |-> ReplaceInLiteral(rule.body[i], hPreds)]]

ClassPredicates == {"C"}
\* CreateHybridPredicateRule: p_derived(X...) :- p(X...)
CreateHybridPredicateRule(p) ==
  LET lit == IF p \in ClassPredicates
             THEN Uniterm(RDFtype, << "X", p >>, FALSE)
             ELSE Uniterm(p, << "X", "Y" >>, FALSE) IN
  [head |-> SetOp(lit, Derived(p)), body |-> << lit >>]

\* hybridPredicatePreparation: (new_derived_predicates, new rule set), and
\* the heap with the objects it made
hybridPredicatePreparation(heap, rules, dPreds, hPreds) ==
  LET cp == DeepCopy(heap, rules)
      replaced == [i \in DOMAIN cp.heap |->
                     IF i \in Range(cp.ids)
                     THEN ReplaceHybridPredcates(cp.heap[i], hPreds)
                     ELSE cp.heap[i]]
      hybrids == SetToSeq(hPreds)
      bridges == [k \in DOMAIN hybrids |-> CreateHybridPredicateRule(hybrids[k])] IN
  [heap |-> replaced \o bridges,
   rules |-> cp.ids \o [k \in DOMAIN bridges |-> Len(replaced) + k],
   derived |-> {q \in dPreds : q \notin hPreds} \cup {Derived(q) : q \in hPreds}]

\* the clauses a rule set holds, in its order
Contents(heap, ids) == [i \in DOMAIN ids |-> heap[ids[i]]]

sipVarsButPc == << clause, adornment, ignoreUnboundDPreds, derivedPreds, sips,
                   sipIdx, sip, bodyOrder, sipOrder, sipGraph, bn, isHead, exc,
                   arcLog >>
PrepRest ==
  /\ UNCHANGED << hybridPredicates, edb, entailed, queryNetworks, goals, iters,
                  stack, out >>
  /\ UNCHANGED sipVarsButPc
  /\ UNCHANGED << hybridPreds2Replace, occurLookup, callerIdb, callArg, batch,
                  batch_unification, ask >>

\* __init__: if self.hybridPredicates and self.idb: d_predicates, new_rules =
\* self.hybridPredicatePreparation(...); self.idb = new_rules;
\* self.derivedPredicates = d_predicates
InitPreparationStep ==
  /\ PrepRest
  /\ pc = "prep"
  /\ IF hybridPredicates # {} /\ idb # << >>
     THEN LET r == hybridPredicatePreparation(ruleHeap, idb, derivedPredicates,
                                              hybridPredicates) IN
          /\ ruleHeap' = r.heap
          /\ idb' = r.rules
          /\ derivedPredicates' = r.derived
     ELSE UNCHANGED << ruleHeap, idb, derivedPredicates >>
  /\ pc' = "prepared"
  /\ UNCHANGED callRet

Calls(fn) == {i \in DOMAIN callRet : callRet[i].fn = fn}

\* store.hybridPredicatePreparation() called on the constructed store
PreparationAgainStep ==
  /\ PrepRest
  /\ pc = "prepared" /\ Calls("hybridPredicatePreparation") = {}
  /\ hybridPredicates # {} /\ idb # << >>
  /\ LET r == hybridPredicatePreparation(ruleHeap, idb, derivedPredicates,
                                         hybridPredicates) IN
       /\ ruleHeap' = r.heap
       /\ callRet' = Append(callRet,
                            [fn |-> "hybridPredicatePreparation",
                             arg |-> << >>,
                             ret |-> [derived |-> r.derived,
                                      rules |-> Contents(r.heap, r.rules)]])
  /\ UNCHANGED << pc, idb, derivedPredicates >>

\* store.hybridPredQueryPreparation(tp), of the goal first and then of what
\* the call before returned
QueryPreparationStep ==
  /\ PrepRest
  /\ pc = "prepared"
  /\ LET done == Calls("hybridPredQueryPreparation")
         tp == IF done = {} THEN callArg.tp
               ELSE callRet[CHOOSE i \in done : \A j \in done : j <= i].ret IN
       /\ Cardinality(done) < 2
       /\ callRet' = Append(callRet,
                            [fn |-> "hybridPredQueryPreparation", arg |-> tp,
                             ret |-> hybridPredQueryPreparation(tp, hybridPredicates)])
  /\ UNCHANGED << pc, ruleHeap, idb, derivedPredicates >>

\* GetArgs(term, secondOrder) called on one literal
GetArgsStep ==
  /\ pc = "term"
  /\ callRet' = << [fn |-> "GetArgs", arg |-> callArg,
                    ret |-> GetArgs(callArg.term, callArg.secondOrder)] >>
  /\ pc' = "termDone"
  /\ UNCHANGED << derivedPredicates, ruleHeap, idb >>
  /\ PrepRest

(***************************************************************************)
(* batch_unify(patterns), the patterns being the goals with a graph name.  *)
(***************************************************************************)
\* dPreds: per pattern the class of a type pattern or the predicate, a hybrid
\* one under its _derived name
BatchDPreds(patterns, hPreds) ==
  {LET tp == patterns[i]
       dPred == IF tp[2] = RDFtype THEN tp[3] ELSE tp[2] IN
   IF dPred \in hPreds THEN dPred \o "_derived" ELSE dPred :
     i \in DOMAIN patterns}

\* vars = list(set(vars)): the Variables of the patterns
BatchVars(patterns) == UNION {FreeVars(patterns[i]) : i \in DOMAIN patterns}

\* self.edb.query(query): the solutions of the conjunction of the patterns
JointSolutions(patterns, facts) ==
  {f \in [BatchVars(patterns) -> {"a", "b"}] :
     \A i \in DOMAIN patterns : Ground(patterns[i], f) \in facts}

\* what the branch over base predicates can end with when no pattern has a
\* Variable: the SELECT without variables is refused by the store, or its
\* result has an item and vars[0] raises IndexError, or it has none
BatchNoVarsOutcomes ==
  {[state |-> IF e = "none" THEN "exhausted" ELSE "raised", exc |-> e,
    envs |-> << >>, rest |-> << >>] :
     e \in {"StoreQueryFailed", "IndexError", "none"}}

\* if set(dPreds).intersection(self.derivedPredicates)
BatchDerived ==
  BatchDPreds(goals, hybridPredicates) \cap derivedPredicates # {}

\* the generator reaches `yield` with the next item, or runs off its end
BatchYield(envs, items) ==
  IF items = << >>
  THEN [state |-> "exhausted", exc |-> "none", envs |-> envs, rest |-> << >>]
  ELSE [state |-> "suspended", exc |-> "none",
        envs |-> Append(envs, Head(items)), rest |-> Tail(items)]

BatchRest ==
  /\ UNCHANGED conjVars
  /\ UNCHANGED sipVars
  /\ UNCHANGED << hybridPreds2Replace, occurLookup, ruleHeap, callerIdb, idb,
                  callArg, callRet, ask >>

\* it = store.batch_unify(patterns); next(it): the body runs to its first
\* yield or to its end.  With a derived predicate among dPreds the flag is
\* set to False and the items are what
\* conjunctiveSipStrategy(iter(goals), self.edb) yields; else one query is
\* sent to the store and a dict is built per result.
BatchUnifyStep ==
  /\ BatchRest
  /\ pc = "conj" /\ stack = << >> /\ batch.state = "none"
  /\ IF BatchDerived
     THEN LET items == [i \in DOMAIN out |-> out[i].env] IN
          /\ batch' = BatchYield(<< >>, items)
          /\ batch_unification' = (items = << >>)
     ELSE /\ IF BatchVars(goals) = {}
             THEN batch' \in BatchNoVarsOutcomes
             ELSE batch' = BatchYield(<< >>, SetToSeq(JointSolutions(goals, edb)))
          /\ UNCHANGED batch_unification

\* next(it) on the suspended iterator: the next item, or the loop ends, and
\* after the loop over the strategy self.batch_unification = True
BatchNextStep ==
  /\ BatchRest
  /\ pc = "conj" /\ batch.state = "suspended"
  /\ batch' = BatchYield(batch.envs, batch.rest)
  /\ IF BatchDerived /\ batch.rest = << >>
     THEN batch_unification' = TRUE
     ELSE UNCHANGED batch_unification

\* the consumer drops the suspended iterator (it.close(), or the last
\* reference goes): GeneratorExit is raised at the yield, which no
\* try/finally encloses
BatchDropStep ==
  /\ BatchRest
  /\ pc = "conj" /\ batch.state = "suspended"
  /\ batch' = [batch EXCEPT !.state = "closed", !.rest = << >>]
  /\ UNCHANGED batch_unification

(***************************************************************************)
(* sparql_query with an ASK query over a basic graph pattern, the patterns *)
(* being the goals.  callRet logs the evaluations made, in order.          *)
(***************************************************************************)
IsBasePattern(tp) ==
  derivedPredicateFromTriple(tp, derivedPredicates, hybridPredicates) = "None"
IsDerivedPattern(tp) == ~IsBasePattern(tp)

groundConjunct == SelectSeq(goals, IsBasePattern)
derivedConjunct == SelectSeq(goals, IsDerivedPattern)

\* EDBQuery(groundConjunct, self.edb).evaluate(): an ASK answer for a
\* conjunction without Variables, the solution rows otherwise
EDBConjunctEvaluate(patterns, facts) ==
  IF BatchVars(patterns) = {}
  THEN [isBool |-> TRUE, val |-> \A i \in DOMAIN patterns : patterns[i] \in facts,
        rows |-> << >>]
  ELSE [isBool |-> FALSE, val |-> FALSE,
        rows |-> SetToSeq(JointSolutions(patterns, facts))]

\* `not rt` of what invokeDecisionProcedure yielded first
Falsy(item) == IF item.isDict THEN item.env = EmptyEnv ELSE ~item.val

AskRest ==
  /\ UNCHANGED << derivedPredicates, hybridPredicates, edb, entailed, goals,
                  iters, stack, out >>
  /\ UNCHANGED sipVarsButPc
  /\ UNCHANGED << hybridPreds2Replace, occurLookup, ruleHeap, callerIdb, idb,
                  callArg, batch, batch_unification >>

\* the conjunct over base predicates: evaluated, asserted to be a bool, and
\* False ends the call; with no derived literal to follow True ends it too
AskBaseStep ==
  /\ AskRest
  /\ pc = "ask"
  /\ IF groundConjunct = << >>
     THEN /\ pc' = "askDerived"
          /\ UNCHANGED << ask, callRet >>
     ELSE LET ans == EDBConjunctEvaluate(groundConjunct, edb) IN
          /\ callRet' = Append(callRet, [fn |-> "EDBQuery.evaluate",
                                         arg |-> groundConjunct, ret |-> ans])
          /\ IF ~ans.isBool
             THEN pc' = "askRaised" /\ ask' = [ask EXCEPT !.exc = "AssertionError"]
             ELSE IF ~ans.val
             THEN pc' = "askDone" /\ ask' = [ask EXCEPT !.result = "False"]
             ELSE IF derivedConjunct = << >>
             THEN pc' = "askDone" /\ ask' = [ask EXCEPT !.result = "True"]
             ELSE pc' = "askDerived" /\ UNCHANGED ask
  /\ UNCHANGED queryNetworks

\* for derivedLiteral in derivedConjunct: the goal is prepared and
\* rt, node = first(self.invokeDecisionProcedure(goal, ...)); first() of a
\* generator that yields nothing is None, which cannot be unpacked
AskDerivedStep ==
  /\ AskRest
  /\ pc = "askDerived" /\ ask.idx < Len(derivedConjunct)
  /\ LET goal == hybridPredQueryPreparation(derivedConjunct[ask.idx + 1],
                                            hybridPredicates)
         items == invokeDecisionProcedure(goal, entailed) IN
       /\ queryNetworks' = Append(queryNetworks, goal)
       /\ callRet' = Append(callRet, [fn |-> "invokeDecisionProcedure",
                                      arg |-> goal, ret |-> items])
       /\ IF items = << >>
          THEN pc' = "askRaised"
               /\ ask' = [ask EXCEPT !.idx = @ + 1, !.exc = "TypeError"]
          ELSE IF Falsy(items[1])
          THEN pc' = "askDone"
               /\ ask' = [ask EXCEPT !.idx = @ + 1, !.result = "False"]
          ELSE IF ask.idx + 1 = Len(derivedConjunct)
          THEN pc' = "askDone"
               /\ ask' = [ask EXCEPT !.idx = @ + 1, !.result = "True"]
          ELSE pc' = "askDerived" /\ ask' = [ask EXCEPT !.idx = @ + 1]

(***************************************************************************)
(* SIP graphs: rdflib Graphs, sets of triples.  BNode() coins a new node.  *)
(***************************************************************************)
RDFfirst == "rdf:first"
RDFrest == "rdf:rest"
RDFnil == "rdf:nil"
MAGICSipArc == "magic:SipArc"
MAGICbindings == "magic:bindings"
MAGICBoundHeadPredicate == "magic:BoundHeadPredicate"

BNode(n) == "_:b" \o ToString(n)

\* rdflib Collection(graph, uri) after append(items[1]), append(items[2]), ...:
\* the first item hangs on uri, each later one on a BNode coined after n
CollectionNode(uri, n, i) == IF i = 1 THEN uri ELSE BNode(n + i - 1)
CollectionTriples(uri, n, items) ==
  {<< CollectionNode(uri, n, i), RDFfirst, items[i] >> : i \in DOMAIN items}
  \cup {<< CollectionNode(uri, n, i), RDFrest,
           IF i = Len(items) THEN RDFnil ELSE CollectionNode(uri, n, i + 1) >> :
          i \in DOMAIN items}
CollectionBNodes(items) == IF items = << >> THEN 0 ELSE Len(items) - 1

RECURSIVE CollectionItems(_, _, _)
\* list(Collection(graph, node)); fuel bounds the walk
CollectionItems(graph, node, fuel) ==
  IF fuel = 0 \/ node = RDFnil
     \/ ~\E t \in graph : t[1] = node /\ t[2] = RDFfirst
  THEN << >>
  ELSE LET f == CHOOSE t \in graph : t[1] = node /\ t[2] = RDFfirst
           rests == {t \in graph : t[1] = node /\ t[2] = RDFrest} IN
       << f[3] >> \o (IF rests = {} THEN << >>
                      ELSE CollectionItems(graph, (CHOOSE t \in rests : TRUE)[3],
                                           fuel - 1))

\* SIPGraphArc.__init__(left, right, variables, graph): the triples it adds,
\* with arc and the bindings collection coined after n
SIPGraphArcNode(n) == "skolem:" \o ToString(n + 1)
SIPGraphArcInit(graph, n, left, right, variables) ==
  graph \cup {<< SIPGraphArcNode(n), RDFtype, MAGICSipArc >>,
              << SIPGraphArcNode(n), MAGICbindings, BNode(n + 2) >>,
              << left, SIPGraphArcNode(n), right >>}
        \cup CollectionTriples(BNode(n + 2), n + 2, variables)
SIPGraphArcBNodes(variables) == 2 + CollectionBNodes(variables)

\* the arcs of a graph: ?prop a magic:SipArc . ?N ?prop ?q
SipArcs(graph) ==
  {t \in graph : << t[2], RDFtype, MAGICSipArc >> \in graph}

IncomingSIPArcs(graph, predOcc) ==
  {[source |-> IF << t[1], RDFtype, MAGICBoundHeadPredicate >> \in graph
               THEN << t[1] >>
               ELSE CollectionItems(graph, t[1], Cardinality(graph)),
    bindings |-> LET b == CHOOSE u \in graph : u[1] = t[2] /\ u[2] = MAGICbindings
                 IN CollectionItems(graph, b[3], Cardinality(graph))] :
     t \in {u \in SipArcs(graph) : u[3] = predOcc}}

\* SELECT ?arc { ?arc m:bindings ?bindings
\*               OPTIONAL { ?bindings rdf:first ?val } FILTER(!BOUND(?val)) }
validSip(graph) ==
  IF Cardinality(graph) = 0 THEN FALSE
  ELSE ~\E t \in graph :
          /\ t[2] = MAGICbindings
          /\ ~\E u \in graph : u[1] = t[3] /\ u[2] = RDFfirst

(***************************************************************************)
(* The clause under construction.  A literal object is named by its place: *)
(* 0 is clause.head, i is clause.body[i].                                  *)
(***************************************************************************)
Lit(id) == IF id = 0 THEN clause.head ELSE clause.body[id]
BodyIds == [i \in 1..Len(clause.body) |-> i]
Args2(id) == Range(GetArgs(Lit(id), TRUE))

getOccurrenceId(uniterm) ==
  LET args == GetArgs(uniterm, FALSE) IN
  GetOp(uniterm) \o "_" \o args[1]
    \o (IF Len(args) > 1 THEN "_" \o args[2] ELSE "")

\* AdornedUniTerm.getDistinguishedVariables(varsOnly=True): the Variables
\* at the positions adorned b
getDistinguishedVariables(head, adn) ==
  LET args == GetArgs(head, FALSE)
      Bound(i) == i <= Len(adn) /\ adn[i] = "b" /\ IsVariable(args[i])
      RECURSIVE From(_)
      From(i) == IF i > Len(args) THEN << >>
                 ELSE (IF Bound(i) THEN << args[i] >> ELSE << >>) \o From(i + 1)
  IN From(1)

phBoundVars == getDistinguishedVariables(clause.head, adornment)
boundHead == "b" \in Range(adornment)

\* CollectSIPArcVars(left, right, phBoundVars); marked: the objects that
\* have the attribute isHead
CollectSIPArcVars(leftIsList, left, right, ph, marked) ==
  IF leftIsList
  THEN UNION {IF t \in marked /\ ph # << >> THEN Range(ph) ELSE Args2(t) :
               t \in Range(left)}
       \cap Args2(right)
  ELSE (IF ph # << >> THEN Range(ph) ELSE Args2(left[1])) \cap Args2(right)

(***************************************************************************)
(* findFullSip((rt, vars), right): the orderings the generator yields, in  *)
(* order.  rightIsAnd: isinstance(right, And), true of clause.body and     *)
(* false of the lists the recursion passes on.                             *)
(***************************************************************************)
\* vars when the caller gives none
InitialVars(rt) ==
  IF Len(rt) = 1 THEN Args2(rt[1])
  ELSE {v \in UNION {Args2(rt[i]) : i \in DOMAIN rt} : IsVariableOrBNode(v)}

\* [i for i in right if i != item]
Without(right, item) == SelectSeq(right, LAMBDA i : i # item)

RECURSIVE findFullSip(_, _, _, _), findFullSipFrom(_, _, _, _)
findFullSip(rt, vars0, right, rightIsAnd) ==
  LET carried == IF vars0 = {} THEN InitialVars(rt) ELSE vars0 IN
  IF Len(right) = 1
  THEN IF Args2(right[1]) \cap carried # {}
       THEN << IF rightIsAnd THEN rt \o right ELSE right >>
       ELSE << >>
  ELSE findFullSipFrom(rt, carried, right, 1)

\* for item in right[k:]: ... for sipOrder in findFullSip(...): yield sipOrder
findFullSipFrom(rt, carried, right, k) ==
  IF k > Len(right) THEN << >>
  ELSE LET item == right[k]
           _vars == {v \in Args2(item) : IsVariableOrBNode(v)}
           _inVars == carried \cup (_vars \ carried) IN
       (IF _vars \cap carried # {}
        THEN findFullSip(rt \o << item >>, _inVars, Without(right, item), FALSE)
        ELSE << >>)
       \o findFullSipFrom(rt, carried, right, k + 1)

\* FuXi.DLP.Negation.ProperSipOrderWithNegation: the negated literals are
\* at the end of the list
ProperSipOrderWithNegation(order) ==
  \A i, j \in DOMAIN order : (i < j /\ Lit(order[i]).naf) => Lit(order[j]).naf

(***************************************************************************)
(* reduce(collectSip, ordering).  The accumulator st is the value of left  *)
(* with the effects collectSip has had so far: the graph, the BNodes       *)
(* coined, the objects marked isHead, and whether it raised               *)
(* InvalidSIPException.                                                    *)
(***************************************************************************)
\* collectSip without its two raise statements
collectSipNeverRaises(st, right) ==
  IF st.leftIsList
  THEN LET left == SetToSeq(Range(st.left))
           ops == [i \in DOMAIN left |-> GetOp(Lit(left[i]))] IN
       [st EXCEPT
          !.graph = @ \cup CollectionTriples(BNode(st.bn + 1), st.bn + 1, ops),
          !.bn = @ + 1 + CollectionBNodes(ops),
          !.left = Append(left, right)]
  ELSE LET marked == st.marked \cup {st.left[1]}
           ph == GetOp(Lit(st.left[1])) IN
       IF boundHead
       THEN [st EXCEPT
               !.graph = @ \cup {<< ph, RDFtype, MAGICBoundHeadPredicate >>},
               !.marked = marked, !.leftIsList = TRUE,
               !.left = << st.left[1], right >>]
       ELSE [st EXCEPT !.marked = marked, !.leftIsList = TRUE,
                       !.left = << right >>]

collectSip(st, right) ==
  IF st.raised THEN st
  ELSE IF st.leftIsList
  THEN LET vs == CollectSIPArcVars(TRUE, st.left, right, phBoundVars, st.marked)
           \* left = list(set(left)), in one iteration order of the set
           left == SetToSeq(Range(st.left))
           ops == [i \in DOMAIN left |-> GetOp(Lit(left[i]))] IN
       IF vs = {} /\ ignoreUnboundDPreds
       THEN [st EXCEPT !.raised = TRUE]
       ELSE [st EXCEPT
               !.graph = @ \cup CollectionTriples(BNode(st.bn + 1), st.bn + 1, ops),
               !.bn = @ + 1 + CollectionBNodes(ops),
               !.left = Append(left, right)]
  ELSE LET marked == st.marked \cup {st.left[1]}
           vs == CollectSIPArcVars(FALSE, st.left, right, phBoundVars, marked)
           ph == GetOp(Lit(st.left[1])) IN
       IF vs = {} /\ ignoreUnboundDPreds
       THEN [st EXCEPT !.raised = TRUE, !.marked = marked]
       ELSE IF boundHead
       THEN [st EXCEPT
               !.graph = @ \cup {<< ph, RDFtype, MAGICBoundHeadPredicate >>},
               !.marked = marked, !.leftIsList = TRUE,
               !.left = << st.left[1], right >>]
       ELSE [st EXCEPT !.marked = marked, !.leftIsList = TRUE,
                       !.left = << right >>]

RECURSIVE reduceFrom(_, _, _)
reduceFrom(st, seq, k) ==
  IF k > Len(seq) THEN st ELSE reduceFrom(collectSip(st, seq[k]), seq, k + 1)

\* reduce(collectSip, seq) on the graph as it stands: the first item is the
\* initial value, so a one-item sequence never calls collectSip
reduceCollectSip(seq) ==
  reduceFrom([left |-> << seq[1] >>, leftIsList |-> FALSE, graph |-> sipGraph,
              bn |-> bn, marked |-> isHead, raised |-> FALSE], seq, 2)

\* hybridPreds2Replace: None, or a collection of predicates
NoHybridPreds == [none |-> TRUE, preds |-> {}]
\* `hybridPreds2Replace if hybridPreds2Replace else False`: its truth value
Truthy(h2r) == ~h2r.none /\ h2r.preds # {}

RECURSIVE CollectionChain(_, _, _)
\* the list nodes of Collection(graph, node), which clear() empties
CollectionChain(graph, node, fuel) ==
  IF fuel = 0 \/ node = RDFnil
     \/ ~\E t \in graph : t[1] = node /\ t[2] \in {RDFfirst, RDFrest}
  THEN {}
  ELSE LET rests == {t \in graph : t[1] = node /\ t[2] = RDFrest} IN
       {node} \cup (IF rests = {} THEN {}
                    ELSE CollectionChain(graph, (CHOOSE t \in rests : TRUE)[3],
                                         fuel - 1))
CollectionClear(graph, node) ==
  {t \in graph :
     ~(t[1] \in CollectionChain(graph, node, Cardinality(graph))
       /\ t[2] \in {RDFfirst, RDFrest})}

\* the arcs the loop marks for removal:
\*   occurLookup[q] not in derivedPreds and
\*     (occurLookup[q] not in hybridPreds2Replace if hybridPreds2Replace
\*      else False)
ArcsToRemove(graph, lookup, dPreds, h2r) ==
  {t \in SipArcs(graph) :
     /\ lookup[t[3]] \notin dPreds
     /\ (IF Truthy(h2r) THEN lookup[t[3]] \notin h2r.preds ELSE FALSE)}

RECURSIVE ClearAll(_, _)
ClearAll(graph, nodes) ==
  IF nodes = {} THEN graph
  ELSE LET n == CHOOSE x \in nodes : TRUE IN
       ClearAll(CollectionClear(graph, n), nodes \ {n})

\* the closing step of BuildNaturalSIP when derivedPreds is given (`if
\* derivedPreds:`): every arc the query finds is looked up in occurLookup
\* (KeyError when the occurrence is not in it); the arcs marked are removed
\* with the triples of their arc node, and their two collections cleared
Generalize(graph, lookup, dPreds, h2r) ==
  IF dPreds = {} THEN [graph |-> graph, raised |-> FALSE]
  ELSE IF \E t \in SipArcs(graph) : t[3] \notin DOMAIN lookup
  THEN [graph |-> graph, raised |-> TRUE]
  ELSE LET drop == ArcsToRemove(graph, lookup, dPreds, h2r)
           bindingNodes ==
             {u[3] : u \in {v \in graph : v[2] = MAGICbindings
                                          /\ \E t \in drop : v[1] = t[2]}}
           kept == {u \in graph :
                      /\ u \notin drop
                      /\ ~\E t \in drop : u[1] = t[2]} IN
       [graph |-> ClearAll(kept, {t[1] : t \in drop} \cup bindingNodes),
        raised |-> FALSE]

\* in BuildNaturalSIP nothing fills occurLookup
GeneralizeRaises(graph) ==
  Generalize(graph, occurLookup, derivedPreds, hybridPreds2Replace).raised

(***************************************************************************)
(* BuildNaturalSIP(clause, derivedPreds, adornedHead, None,                *)
(*                 ignoreUnboundDPreds), step by step.                     *)
(***************************************************************************)
HasNaf == \E i \in DOMAIN clause.body : clause.body[i].naf
AllSips == findFullSip(<< 0 >>, {}, BodyIds, TRUE)

\* if ignoreUnboundDPreds: foundSip = False; sips = findFullSip(...)
SearchStartStep ==
  /\ SipRest
  /\ pc = "bns" /\ clause.bodyIsAnd /\ ignoreUnboundDPreds
  /\ sips' = AllSips
  /\ pc' = "next"
  /\ UNCHANGED << sipIdx, sip, bodyOrder, sipOrder, sipGraph, bn, isHead, exc >>

\* a search that asks a new findFullSip iterator for its first ordering
\* every time round the loop
NextSipFromStart ==
  /\ SipRest
  /\ pc = "next" /\ sips # << >>
  /\ sip' = sips[1]
  /\ sipIdx' = 1
  /\ pc' = "fold"
  /\ UNCHANGED << sips, bodyOrder, sipOrder, sipGraph, bn, isHead, exc >>

\* sip = next(sips)
NextSipStep ==
  /\ SipRest
  /\ pc = "next" /\ sipIdx < Len(sips)
  /\ sip' = sips[sipIdx + 1]
  /\ sipIdx' = sipIdx + 1
  /\ pc' = "fold"
  /\ UNCHANGED << sips, bodyOrder, sipOrder, sipGraph, bn, isHead, exc >>

\* except StopIteration: raise InvalidSIPException(...)
SipsExhaustedStep ==
  /\ SipRest
  /\ pc = "next" /\ sipIdx = Len(sips)
  /\ exc' = "InvalidSIPException"
  /\ pc' = "raised"
  /\ UNCHANGED << sips, sipIdx, sip, bodyOrder, sipOrder, sipGraph, bn, isHead >>

\* reduce(collectSip, iterCondition(And(sip))); foundSip = True; bodyOrder = sip
FoldAcceptStep ==
  /\ SipRest
  /\ pc = "fold"
  /\ LET r == reduceCollectSip(sip) IN
       /\ ~r.raised
       /\ sipGraph' = r.graph /\ bn' = r.bn /\ isHead' = r.marked
  /\ bodyOrder' = sip
  /\ pc' = "finish"
  /\ UNCHANGED << sips, sipIdx, sip, sipOrder, exc >>

\* except InvalidSIPException: foundSip = False
FoldRejectStep ==
  /\ SipRest
  /\ pc = "fold"
  /\ LET r == reduceCollectSip(sip) IN
       /\ r.raised
       /\ sipGraph' = r.graph /\ bn' = r.bn /\ isHead' = r.marked
  /\ pc' = "next"
  /\ UNCHANGED << sips, sipIdx, sip, bodyOrder, sipOrder, exc >>

\* not ignoreUnboundDPreds: the candidates first(...) chooses from
Candidates(all) ==
  IF HasNaf THEN SelectSeq(all, ProperSipOrderWithNegation) ELSE all

\* bodyOrder = first(...); assert bodyOrder; reduce(collectSip, ...)
FirstOrderStep ==
  /\ SipRest
  /\ pc = "bns" /\ clause.bodyIsAnd /\ ~ignoreUnboundDPreds
  /\ Candidates(AllSips) # << >>
  /\ sips' = AllSips
  /\ bodyOrder' = Candidates(AllSips)[1]
  /\ LET r == reduceCollectSip(Candidates(AllSips)[1]) IN
       sipGraph' = r.graph /\ bn' = r.bn /\ isHead' = r.marked
  /\ pc' = "finish"
  /\ UNCHANGED << sipIdx, sip, sipOrder, exc >>

\* first(...) is None: assert bodyOrder, "Couldn't find a valid SIP for ..."
FirstOrderFailsStep ==
  /\ SipRest
  /\ pc = "bns" /\ clause.bodyIsAnd /\ ~ignoreUnboundDPreds
  /\ Candidates(AllSips) = << >>
  /\ sips' = AllSips
  /\ exc' = "AssertionError"
  /\ pc' = "raised"
  /\ UNCHANGED << sipIdx, sip, bodyOrder, sipOrder, sipGraph, bn, isHead >>

\* sipGraph.sipOrder = And(bodyOrder[1:]); if derivedPreds: ...; return sipGraph
FinishStep ==
  /\ SipRest
  /\ pc = "finish"
  /\ sipOrder' = Tail(bodyOrder)
  /\ pc' = IF GeneralizeRaises(sipGraph) THEN "raised" ELSE "returned"
  /\ exc' = IF GeneralizeRaises(sipGraph) THEN "KeyError" ELSE exc
  /\ UNCHANGED << sips, sipIdx, sip, bodyOrder, sipGraph, bn, isHead >>

\* the body is one literal, no And: if boundHead: reduce(collectSip,
\* chain(head, body)); sipGraph.sipOrder = clause.body
NonConjunctiveStep ==
  /\ SipRest
  /\ pc = "bns" /\ ~clause.bodyIsAnd
  /\ LET r == IF boundHead THEN reduceCollectSip(<< 0 >> \o BodyIds)
              ELSE reduceCollectSip(<< 0 >>) IN
       /\ sipGraph' = r.graph /\ bn' = r.bn /\ isHead' = r.marked
       /\ pc' = IF r.raised \/ GeneralizeRaises(r.graph)
                THEN "raised" ELSE "returned"
       /\ exc' = IF r.raised THEN "InvalidSIPException"
                 ELSE IF GeneralizeRaises(r.graph) THEN "KeyError" ELSE exc
       /\ sipOrder' = IF r.raised THEN sipOrder ELSE BodyIds
  /\ UNCHANGED << sips, sipIdx, sip, bodyOrder >>

(***************************************************************************)
(* A graph of its own, as callers build it: SIPGraphArc(...) adds an arc,  *)
(* and a bound head is marked as collectSip marks it.                      *)
(***************************************************************************)
GraphSources == {"ph", "N"}
GraphLiterals == {Uniterm("q", << "X" >>, FALSE),
                  Uniterm("r", << "X", "Y" >>, FALSE)}
GraphOccurrences == {getOccurrenceId(l) : l \in GraphLiterals}
\* lookup[pO] = GetOp(uniterm)
Register(lookup, lit) ==
  [q \in DOMAIN lookup \cup {getOccurrenceId(lit)} |->
     IF q = getOccurrenceId(lit) THEN GetOp(lit) ELSE lookup[q]]
GraphBindings == {<< >>, << "X" >>, << "X", "Y" >>}

GraphArcStep ==
  /\ GraphRest
  /\ pc = "graph" /\ Len(arcLog) < MaxArcs
  /\ \E left \in GraphSources, lit \in GraphLiterals,
        variables \in GraphBindings :
       LET right == getOccurrenceId(lit) IN
       /\ sipGraph' = SIPGraphArcInit(sipGraph, bn, left, right, variables)
       /\ bn' = bn + SIPGraphArcBNodes(variables)
       /\ occurLookup' = Register(occurLookup, lit)
       /\ arcLog' = Append(arcLog, [left |-> left, right |-> right,
                                    variables |-> variables])

GraphBoundHeadStep ==
  /\ GraphRest
  /\ pc = "graph"
  /\ \E ph \in {"ph", "sg"} :
       sipGraph' = sipGraph \cup {<< ph, RDFtype, MAGICBoundHeadPredicate >>}
  /\ UNCHANGED << bn, arcLog, occurLookup >>

\* if derivedPreds: ... ; return sipGraph
GeneralizeStep ==
  /\ pc = "graph"
  /\ LET r == Generalize(sipGraph, occurLookup, derivedPreds,
                         hybridPreds2Replace) IN
       /\ sipGraph' = r.graph
       /\ exc' = IF r.raised THEN "KeyError" ELSE exc
       /\ pc' = "generalized"
  /\ UNCHANGED << clause, adornment, ignoreUnboundDPreds, derivedPreds, sips,
                  sipIdx, sip, bodyOrder, sipOrder, isHead, bn, arcLog >>
  /\ UNCHANGED conjVars
  /\ UNCHANGED extVars

(***************************************************************************)
(* Initial states.                                                         *)
(***************************************************************************)
\* the groups a specification does not use
ConjIdle ==
  /\ derivedPredicates = {} /\ hybridPredicates = {}
  /\ edb = {} /\ entailed = {}
  /\ queryNetworks = << >> /\ goals = << >> /\ iters = << >>
  /\ stack = << >> /\ out = << >>

NoBatch == [state |-> "none", exc |-> "none", envs |-> << >>, rest |-> << >>]
NoAsk == [idx |-> 0, result |-> "none", exc |-> "none"]
\* no call of batch_unify or sparql_query yet; the class attribute
\* batch_unification = True
BatchIdle == batch = NoBatch /\ batch_unification = TRUE /\ ask = NoAsk
RulesIdle ==
  /\ ruleHeap = << >> /\ callerIdb = << >> /\ idb = << >>
CallIdle == callArg = << >> /\ callRet = << >>
ExtIdle ==
  /\ hybridPreds2Replace = NoHybridPreds /\ occurLookup = << >>
  /\ RulesIdle /\ CallIdle /\ BatchIdle

NoClause == [head |-> Uniterm("h", << "X" >>, FALSE), body |-> << >>,
             bodyIsAnd |-> FALSE]

SipIdle ==
  /\ clause = NoClause /\ adornment = << >>
  /\ ignoreUnboundDPreds = FALSE /\ derivedPreds = {}
  /\ sips = << >> /\ sipIdx = 0 /\ sip = << >> /\ bodyOrder = << >>
  /\ sipOrder = << >> /\ sipGraph = {} /\ bn = 0 /\ isHead = {}
  /\ exc = "none" /\ arcLog = << >>

\* the store after __init__ with derived predicates sg and C and the hybrid
\* predicate hyb (hybridPredicatePreparation has run), over one of two
\* fact bases
Worlds ==
  {[edb |-> {<< "a", "up", "b" >>, << "b", "up", "b" >>},
    entailed |-> {<< "a", "sg", "a" >>, << "a", "sg", "b" >>,
                  << "a", "hyb_derived", "b" >>, << "b", "hyb_derived", "b" >>,
                  << "a", RDFtype, "C" >>, << "b", RDFtype, "C" >>}],
   [edb |-> {<< "a", "up", "a" >>},
    entailed |-> {<< "a", "sg", "b" >>, << "a", RDFtype, "C" >>}]}

GoalPatterns ==
  {<< "?x", "up", "?y" >>, << "a", "up", "b" >>, << "?y", "up", "b" >>,
   << "a", "sg", "?y" >>, << "a", "sg", "b" >>, << "?x", "hyb", "?y" >>,
   << "?x", RDFtype, "C" >>}

\* conjunctiveSipStrategy(iter(goals), self.edb) has been called and the
\* consumer is about to ask for the first answer
InitConj ==
  /\ \E w \in Worlds : edb = w.edb /\ entailed = w.entailed
  /\ derivedPredicates = {"sg", "C", "hyb_derived"}
  /\ hybridPredicates = {"hyb"}
  /\ queryNetworks = << >>
  /\ goals \in UNION {[1..n -> GoalPatterns] : n \in 1..MaxGoals}
  /\ iters = << [kind |-> "list", pos |-> 0] >>
  /\ out = << >>
  /\ stack = << [it |-> 1, bindings |-> EmptyEnv, pc |-> "start", tpIdx |-> 0,
                 rows |-> << >>, answers |-> << >>, copies |-> << >>,
                 idx |-> 0, proved |-> {}, outAtCall |-> 0] >>
  /\ pc = "conj"
  /\ clause = NoClause /\ adornment = << >>
  /\ ignoreUnboundDPreds = FALSE /\ derivedPreds = {}
  /\ sips = << >> /\ sipIdx = 0 /\ sip = << >> /\ bodyOrder = << >>
  /\ sipOrder = << >> /\ sipGraph = {} /\ bn = 0 /\ isHead = {}
  /\ exc = "none" /\ arcLog = << >>
  /\ ExtIdle

\* the literals clauses are drawn from
LiteralPool ==
  {Uniterm("a", << "X", "Y" >>, FALSE),
   Uniterm("b", << "Y", "Z" >>, FALSE),
   Uniterm("c", << "Z", "k" >>, FALSE),
   Uniterm(RDFtype, << "Y", "A" >>, FALSE),
   Uniterm(RDFtype, << "Y", "B" >>, FALSE),
   Uniterm("s", << "X", "Y" >>, TRUE)}

Heads == {Uniterm(RDFtype, << "X", "H" >>, FALSE),
          Uniterm("h", << "X", "k" >>, FALSE)}

Injective(f) == \A i, j \in DOMAIN f : f[i] = f[j] => i = j
Bodies ==
  {b \in UNION {[1..n -> LiteralPool] : n \in 1..MaxBody} : Injective(b)}

\* sg(X,Y) :- up(X,Z1), sg(Z1,Z2), flat(Z2,Z3), sg(Z3,Z4), down(Z4,Y)
SameGeneration ==
  [head |-> Uniterm("sg", << "X", "Y" >>, FALSE),
   body |-> << Uniterm("up", << "X", "Z1" >>, FALSE),
               Uniterm("sg", << "Z1", "Z2" >>, FALSE),
               Uniterm("flat", << "Z2", "Z3" >>, FALSE),
               Uniterm("sg", << "Z3", "Z4" >>, FALSE),
               Uniterm("down", << "Z4", "Y" >>, FALSE) >>,
   bodyIsAnd |-> TRUE]

Clauses ==
  {[head |-> h, body |-> b, bodyIsAnd |-> TRUE] : h \in Heads, b \in Bodies}
  \cup {[head |-> h, body |-> << l >>, bodyIsAnd |-> FALSE] :
          h \in Heads, l \in LiteralPool}
  \cup {SameGeneration}

\* BuildNaturalSIP has been called
InitSip ==
  /\ clause \in Clauses
  /\ adornment \in [1..Len(GetArgs(clause.head, FALSE)) -> {"b", "f"}]
  /\ ignoreUnboundDPreds \in BOOLEAN
  /\ derivedPreds \in {{}, {"sg", "a"}}
  /\ pc = "bns"
  /\ sips = << >> /\ sipIdx = 0 /\ sip = << >> /\ bodyOrder = << >>
  /\ sipOrder = << >> /\ sipGraph = {} /\ bn = 0 /\ isHead = {}
  /\ exc = "none" /\ arcLog = << >>
  /\ ConjIdle
  /\ ExtIdle

\* the collections BuildNaturalSIP may be given as hybridPreds2Replace
HybridPreds2Replace ==
  {NoHybridPreds} \cup {[none |-> FALSE, preds |-> P] : P \in {{}, {"r"}, {"s"}}}

\* sipGraph = Graph(), with the derivedPreds and hybridPreds2Replace given
InitGraph ==
  /\ pc = "graph"
  /\ clause = NoClause /\ adornment = << >>
  /\ ignoreUnboundDPreds = FALSE /\ derivedPreds \in {{}, {"q"}}
  /\ hybridPreds2Replace \in HybridPreds2Replace /\ occurLookup = << >>
  /\ RulesIdle /\ CallIdle /\ BatchIdle
  /\ sips = << >> /\ sipIdx = 0 /\ sip = << >> /\ bodyOrder = << >>
  /\ sipOrder = << >> /\ sipGraph = {} /\ bn = 0 /\ isHead = {}
  /\ exc = "none" /\ arcLog = << >>
  /\ ConjIdle

\* the rules a caller's rule set is drawn from
RulePool ==
  {[head |-> Uniterm("hyb", << "X", "Y" >>, FALSE),
    body |-> << Uniterm("up", << "X", "Y" >>, FALSE) >>],
   [head |-> Uniterm("sg", << "X", "Y" >>, FALSE),
    body |-> << Uniterm("hyb", << "X", "Z" >>, FALSE),
                Uniterm("up", << "Z", "Y" >>, FALSE) >>],
   [head |-> Uniterm("sg", << "X", "Y" >>, FALSE),
    body |-> << Uniterm("up", << "X", "Y" >>, FALSE) >>],
   [head |-> Uniterm(RDFtype, << "X", "C" >>, FALSE),
    body |-> << Uniterm("hyb", << "X", "Y" >>, FALSE) >>]}

RuleSets ==
  {r \in UNION {[1..n -> RulePool] : n \in 0..MaxRules} : Injective(r)}

\* TopDownSPARQLEntailingStore(store, edb, derivedPredicates, idb,
\* hybridPredicates=...) has reached the hybrid predicate preparation
InitPrep ==
  /\ pc = "prep"
  /\ \E rules \in RuleSets, tp \in GoalPatterns :
       /\ ruleHeap = rules
       /\ callerIdb = [i \in DOMAIN rules |-> i]
       /\ idb = callerIdb
       /\ callArg = [rules |-> rules, derived |-> {"sg", "C", "hyb"}, tp |-> tp]
  /\ derivedPredicates = {"sg", "C", "hyb"}
  /\ hybridPredicates \in {{}, {"hyb"}, {"hyb", "C"}}
  /\ edb = {} /\ entailed = {}
  /\ queryNetworks = << >> /\ goals = << >> /\ iters = << >>
  /\ stack = << >> /\ out = << >>
  /\ clause = NoClause /\ adornment = << >>
  /\ ignoreUnboundDPreds = FALSE /\ derivedPreds = {}
  /\ sips = << >> /\ sipIdx = 0 /\ sip = << >> /\ bodyOrder = << >>
  /\ sipOrder = << >> /\ sipGraph = {} /\ bn = 0 /\ isHead = {}
  /\ exc = "none" /\ arcLog = << >>
  /\ hybridPreds2Replace = NoHybridPreds /\ occurLookup = << >>
  /\ callRet = << >> /\ BatchIdle

\* the literals GetArgs is called on: a constant, a Variable or a BNode as
\* operator, as subject and as object or class
TermLiterals ==
  {Uniterm(op, << s, o >>, FALSE) :
     op \in {"up", "?x", "_:e", RDFtype},
     s \in {"a", "X", "_:e"},
     o \in {"b", "C", "Y", "?y", "_:e"}}

InitTerm ==
  /\ pc = "term"
  /\ callArg \in [term : TermLiterals, secondOrder : BOOLEAN]
  /\ callRet = << >>
  /\ ConjIdle /\ SipIdle /\ RulesIdle
  /\ hybridPreds2Replace = NoHybridPreds /\ occurLookup = << >>
  /\ BatchIdle

\* the patterns of ASK queries: the goal patterns and a ground goal over a
\* derived predicate that no fact base entails
AskPatterns == GoalPatterns \cup {<< "b", "sg", "a" >>}

\* sparql_query(queryString, queryObj, ...) with an ASK query whose pattern
\* isaBaseQuery renders as a basic graph pattern: a derived predicate is in it
InitAsk ==
  /\ pc = "ask"
  /\ \E w \in Worlds : edb = w.edb /\ entailed = w.entailed
  /\ derivedPredicates = {"sg", "C", "hyb_derived"}
  /\ hybridPredicates = {"hyb"}
  /\ goals \in UNION {[1..n -> AskPatterns] : n \in 1..MaxGoals}
  /\ derivedConjunct # << >>
  /\ queryNetworks = << >> /\ iters = << >> /\ stack = << >> /\ out = << >>
  /\ SipIdle /\ ExtIdle

Init == InitConj \/ InitSip \/ InitGraph \/ InitPrep \/ InitTerm \/ InitAsk

(***************************************************************************)
(* Specifications.                                                         *)
(***************************************************************************)
NextConj ==
  \/ StopIterationStep
  \/ BaseGroundTrueStep
  \/ BaseGroundFalseStep
  \/ BaseRowsStep
  \/ NextRowStep
  \/ RowsDoneStep
  \/ DerivedGoalStep
  \/ NextAnswerStep
  \/ AnswersDoneStep
  \/ BatchUnifyStep
  \/ BatchNextStep
  \/ BatchDropStep

NextSip ==
  \/ SearchStartStep
  \/ NextSipStep
  \/ SipsExhaustedStep
  \/ FoldAcceptStep
  \/ FoldRejectStep
  \/ FirstOrderStep
  \/ FirstOrderFailsStep
  \/ FinishStep
  \/ NonConjunctiveStep

NextGraph ==
  \/ GraphArcStep
  \/ GraphBoundHeadStep
  \/ GeneralizeStep

NextPrep ==
  \/ InitPreparationStep
  \/ PreparationAgainStep
  \/ QueryPreparationStep

NextTerm ==
  \/ GetArgsStep

NextAsk ==
  \/ AskBaseStep
  \/ AskDerivedStep

Next == NextConj \/ NextSip \/ NextGraph \/ NextPrep \/ NextTerm \/ NextAsk

SpecConj == InitConj /\ [][NextConj]_vars
SpecSip == InitSip /\ [][NextSip]_vars
SpecGraph == InitGraph /\ [][NextGraph]_vars
\* the search loop, once entered, runs on: BuildNaturalSIP is sequential code
SpecSipLive ==
  /\ InitSip /\ [][NextSip]_vars
  /\ WF_vars(NextSipStep) /\ WF_vars(SipsExhaustedStep)
  /\ WF_vars(FoldAcceptStep) /\ WF_vars(FoldRejectStep)
SpecPrep == InitPrep /\ [][NextPrep]_vars
SpecTerm == InitTerm /\ [][NextTerm]_vars
SpecAsk == InitAsk /\ [][NextAsk]_vars
Spec == Init /\ [][Next]_vars

(***************************************************************************)
(* conjunctiveSipStrategy: the claims, checked under SpecConj.             *)
(***************************************************************************)
AllGoals == 1..Len(goals)

\* C1: every environment conjunctiveSipStrategy yields is yielded only after
\* every goal of the conjunction has been taken from the iterator and
\* evaluated successfully, a ground base pattern answered true included.
C1_YieldOnlyAfterEveryGoal ==
  \A i \in DOMAIN out : out[i].proved = AllGoals

\* the frame a caller has just called, and the caller
JustCalled(d) == d \in 2..Len(stack) /\ stack[d].pc = "start"
Caller(d) == stack[d - 1]
\* the goals an iterator has left are those after the one the caller took
SeesRemainingGoals(d) == iters[stack[d].it].pos = Caller(d).tpIdx

\* C2: of a derived (or hybrid) goal every solution is merged with the
\* current bindings and its recursion evaluates all the remaining goals:
\* the k-th answer is checked against the same goals as the first.
C2_EveryAnswerSeesRemainingGoals ==
  \A d \in DOMAIN stack :
    (JustCalled(d) /\ Caller(d).pc = "answers") =>
      /\ SeesRemainingGoals(d)
      /\ LET nextAnswer == Caller(d).answers[Caller(d).idx] IN
           stack[d].bindings =
             IF nextAnswer.isDict
             THEN mergeMappings1To2(Caller(d).bindings, nextAnswer.env)
             ELSE Caller(d).bindings

\* C3: a goal that is neither derived nor hybrid is dispatched as a base
\* query; every row is merged into the current environment and its recursion
\* sees all the remaining goals, the same for every row; zero rows yield
\* nothing.
C3_EveryRowSeesRemainingGoals ==
  \A d \in DOMAIN stack :
    /\ (JustCalled(d) /\ Caller(d).pc = "rows") =>
         /\ SeesRemainingGoals(d)
         /\ stack[d].bindings =
              UpdateRowWithBindings(Caller(d).rows[Caller(d).idx],
                                    Caller(d).bindings)
         /\ derivedPredicateFromTriple(goals[Caller(d).tpIdx],
                                       derivedPredicates, hybridPredicates) = "None"
    /\ (stack[d].pc = "rows" /\ stack[d].rows = << >>) =>
         Len(out) = stack[d].outAtCall

\* a later row is handed its goals after an earlier row's recursion has
\* taken goals from the iterator
C3_Witness ==
  \E d \in DOMAIN stack :
    /\ JustCalled(d) /\ Caller(d).pc = "rows" /\ Caller(d).idx >= 2
    /\ iters[1].pos > Caller(d).tpIdx
    /\ Caller(d).tpIdx < Len(goals)

(***************************************************************************)
(* findFullSip and BuildNaturalSIP: the claims, checked under SpecSip.     *)
(***************************************************************************)
Conjunctive == pc # "graph" /\ pc # "conj" /\ clause.bodyIsAnd
Searched == Conjunctive /\ pc # "bns"
Returned == Conjunctive /\ pc = "returned"
Ended == Conjunctive /\ pc \in {"returned", "raised"}

\* the prefix [head] followed by every body literal once
FullOrdering(o) ==
  /\ Len(o) = Len(clause.body) + 1
  /\ o[1] = 0
  /\ {o[k] : k \in 2..Len(o)} = 1..Len(clause.body)

\* C4: every ordering findFullSip yields is the prefix followed by all the
\* literals of remaining, each once, at every recursion depth; so the
\* sipOrder BuildNaturalSIP stores is a permutation of the clause body.
C4_OrderingsArePermutations ==
  /\ Searched => \A i \in DOMAIN sips : FullOrdering(sips[i])
  /\ Returned => /\ Len(sipOrder) = Len(clause.body)
                 /\ Range(sipOrder) = 1..Len(clause.body)

VarsOf(id) == {v \in Args2(id) : IsVariableOrBNode(v)}

\* C5: in every yielded ordering each body literal, the last one included,
\* shares a variable (not merely a constant) with the head or with a literal
\* placed before it.
C5_EveryLiteralSharesAVariable ==
  Searched =>
    \A i \in DOMAIN sips : \A k \in DOMAIN sips[i] :
      sips[i][k] # 0 =>
        VarsOf(sips[i][k])
          \cap (VarsOf(0) \cup UNION {VarsOf(sips[i][j]) : j \in 1..(k - 1)})
          # {}

\* C6: when the search produces no acceptable ordering for a conjunctive
\* body, BuildNaturalSIP signals InvalidSIPException, for both values of
\* ignoreUnboundDPreds.
C6_NoOrderingIsInvalidSIP ==
  (Ended /\ bodyOrder = << >>) => exc = "InvalidSIPException"

\* the variables collected at fold step k of ordering o, whose left is the
\* head at the first step and the list of what was folded before after it
StepVars(o, k) ==
  IF k = 1
  THEN CollectSIPArcVars(FALSE, << o[1] >>, o[2], phBoundVars, {o[1]})
  ELSE CollectSIPArcVars(TRUE,
                         (IF boundHead THEN << o[1] >> ELSE << >>)
                           \o SubSeq(o, 2, k),
                         o[k + 1], phBoundVars, {o[1]})
NoEmptyStep(o) == \A k \in 1..(Len(o) - 1) : StepVars(o, k) # {}
Acceptable == {i \in DOMAIN sips : NoEmptyStep(sips[i])}
FirstOf(S) == CHOOSE i \in S : \A j \in S : i <= j

\* C7: with ignoreUnboundDPreds the body order adopted is the first ordering
\* of the enumeration with no empty fold step; an ordering with an empty
\* step is rejected and the next one requested; InvalidSIPException reaches
\* the caller only when the orderings are exhausted.
C7_FirstAcceptableOrderingAdopted ==
  (Searched /\ ignoreUnboundDPreds) =>
    /\ pc = "next" => \A i \in 1..sipIdx : ~NoEmptyStep(sips[i])
    /\ pc \in {"finish", "returned"} =>
         /\ Acceptable # {}
         /\ sipIdx = FirstOf(Acceptable)
         /\ bodyOrder = sips[sipIdx]
         /\ exc = "none"
    /\ pc = "raised" =>
         /\ Acceptable = {}
         /\ sipIdx = Len(sips)
         /\ exc = "InvalidSIPException"
         /\ bodyOrder = << >>

\* an ordering was rejected by the fold and the exhausted search then raised
C7_Witness ==
  /\ Searched /\ ignoreUnboundDPreds
  /\ pc = "raised" /\ sipIdx >= 1

Position(o, id) == CHOOSE k \in DOMAIN o : o[k] = id
Contributes(a, n) ==
  /\ a # n /\ ~Lit(a).naf /\ Lit(n).naf
  /\ VarsOf(a) \cap VarsOf(n) # {}

\* C8: when the conjunctive body holds a negated literal, the chosen body
\* ordering places each negated literal after every atom that contributes
\* to its variable bindings, for both values of ignoreUnboundDPreds.
C8_NegatedLiteralsAfterTheirBinders ==
  Returned =>
    \A n, a \in 1..Len(clause.body) :
      Contributes(a, n) =>
        /\ a \in Range(bodyOrder) /\ n \in Range(bodyOrder)
        /\ Position(bodyOrder, a) < Position(bodyOrder, n)

\* C9: the returned graph holds, for each fold step (left, right) of the
\* chosen ordering, an arc typed magic:SipArc into the occurrence of right,
\* labelled with the variables CollectSIPArcVars collects and retrievable
\* through IncomingSIPArcs; for the same-generation rule arcs enter sg.
C9_EveryFoldStepHasAnArc ==
  Returned =>
    /\ \A k \in 1..(Len(bodyOrder) - 1) :
         \E arc \in IncomingSIPArcs(sipGraph,
                                    getOccurrenceId(Lit(bodyOrder[k + 1]))) :
           Range(arc.bindings) = StepVars(bodyOrder, k)
    /\ clause = SameGeneration =>
         \E t \in SipArcs(sipGraph) : t[3] = getOccurrenceId(clause.body[2])

(***************************************************************************)
(* validSip: the claim, checked under SpecGraph.                           *)
(***************************************************************************)
EveryArcHasBindings == \A i \in DOMAIN arcLog : arcLog[i].variables # << >>

\* C10: validSip(G) is true iff G has at least one SIP arc and every arc's
\* bindings list is non-empty; a graph with no arc, one holding only a
\* BoundHeadPredicate marking included, is not valid.
C10_ValidIffSomeArc ==
  pc = "graph" => (validSip(sipGraph) <=> (arcLog # << >> /\ EveryArcHasBindings))

\* the operator of the occurrence an arc enters is derived, or is in the
\* hybrid-replacement collection
EntersDerivedOrHybrid(t) ==
  \/ occurLookup[t[3]] \in derivedPreds
  \/ (~hybridPreds2Replace.none
      /\ occurLookup[t[3]] \in hybridPreds2Replace.preds)

DispatchedGoal(f) ==
  LET goal == goals[f.tpIdx]
      bound == IF f.bindings # EmptyEnv
               THEN Ground(ToRDFTuple(BuildUnitermFromTuple(goal)), f.bindings)
               ELSE goal IN
  hybridPredQueryPreparation(bound, hybridPredicates)
HasVariable(tp) == \E i \in 1..3 : IsVariable(tp[i])

\* C12: invokeDecisionProcedure yields exactly one item, the boolean answer,
\* when the goal triple holds no Variable, and exactly the decision
\* procedure's goal solutions in their order, never the boolean, when the
\* goal holds a Variable.
C12_BooleanOrGoalSolutions ==
  \A d \in DOMAIN stack :
    stack[d].pc = "answers" =>
      LET tp == DispatchedGoal(stack[d])
          a == stack[d].answers
          solutions == BFPGoalSolutions(tp, entailed) IN
      IF HasVariable(tp)
      THEN /\ Len(a) = Len(solutions)
           /\ \A k \in DOMAIN a : a[k].isDict /\ a[k].env = solutions[k]
      ELSE /\ Len(a) = 1
           /\ ~a[1].isDict /\ a[1].val = BFPAnswers(tp, entailed)

\* an open goal with two solutions has been answered, and below it a ground
\* goal with its boolean
C12_Witness ==
  \E d, e \in DOMAIN stack :
    /\ stack[d].pc = "answers" /\ HasVariable(DispatchedGoal(stack[d]))
    /\ Len(stack[d].answers) >= 2
    /\ stack[e].pc = "answers" /\ ~HasVariable(DispatchedGoal(stack[e]))
    /\ Len(stack[e].answers) = 1

(***************************************************************************)
(* Merging rows and answers into the bindings: checked under SpecConj.     *)
(***************************************************************************)
Agree(a, b) == \A v \in DOMAIN a \cap DOMAIN b : a[v] = b[v]
Extends(big, small) ==
  DOMAIN small \subseteq DOMAIN big /\ \A v \in DOMAIN small : big[v] = small[v]
\* the environment makes the goal a fact of the base or a proved fact
GoalHolds(tp, env) ==
  LET q == Ground(ToRDFTuple(BuildUnitermFromTuple(tp)), env) IN
  IF derivedPredicateFromTriple(tp, derivedPredicates, hybridPredicates) = "None"
  THEN q \in edb
  ELSE hybridPredQueryPreparation(q, hybridPredicates) \in entailed

C14_BatchUnifyIsTheStrategy ==
  batch.state \in {"exhausted", "raised"} =>
    /\ batch.exc = "none"
    /\ Range(batch.envs) = {out[i].env : i \in DOMAIN out}

(***************************************************************************)
(* Hybrid predicates: checked under SpecPrep.                              *)
(***************************************************************************)
Prepared == pc = "prepared"
PreparationRan == Prepared /\ hybridPredicates # {} /\ callArg.rules # << >>

\* C15: hybridPredicatePreparation leaves the rule set the caller passed to
\* the store as it was: the same clause objects, each holding what it held;
\* the rewriting is done on deep copies.
C15_CallerRuleSetUnchanged ==
  pc \in {"prep", "prepared"} =>
    /\ callerIdb = [i \in DOMAIN callArg.rules |-> i]
    /\ Contents(ruleHeap, callerIdb) = callArg.rules

\* the preparation has run and a rule of the store differs from the caller's
\* rule it was copied from
C15_Witness ==
  /\ PreparationRan
  /\ \E i \in DOMAIN callerIdb : ruleHeap[idb[i]] # ruleHeap[callerIdb[i]]

IsBridge(rule, p) ==
  /\ Len(rule.body) = 1
  /\ GetOp(rule.body[1]) = p
  /\ GetOp(rule.head) = Derived(p)
  /\ rule.head.arg[1] = rule.body[1].arg[1]
  /\ (rule.body[1].op # RDFtype => rule.head.arg = rule.body[1].arg)

ExpectedGoal(tp) ==
  IF tp[2] = RDFtype
  THEN IF tp[3] \in hybridPredicates
       THEN << tp[1], RDFtype, Derived(tp[3]) >> ELSE tp
  ELSE IF tp[2] \in hybridPredicates
       THEN << tp[1], Derived(tp[2]), tp[3] >> ELSE tp

QueryCalls == Calls("hybridPredQueryPreparation")

\* C16: after the preparation, for every hybrid predicate p exactly one
\* bridge rule p_derived(X...) :- p(X...) is in the store's rule set,
\* p_derived is in the derived set and p is not; every derived predicate
\* that is not hybrid is still in it; and hybridPredQueryPreparation turns
\* a goal over p into the goal over p_derived and leaves other goals alone.
C16_BridgeRulesAndDerivedSet ==
  /\ PreparationRan =>
       /\ \A p \in hybridPredicates :
            /\ Cardinality({i \in DOMAIN idb : IsBridge(ruleHeap[idb[i]], p)}) = 1
            /\ Derived(p) \in derivedPredicates
            /\ p \notin derivedPredicates
       /\ \A q \in callArg.derived \ hybridPredicates : q \in derivedPredicates
       /\ Len(idb) = Len(callArg.rules) + Cardinality(hybridPredicates)
  /\ Prepared =>
       \A i \in QueryCalls : callRet[i].ret = ExpectedGoal(callRet[i].arg)

\* two hybrid predicates, and a goal over one of them has been rewritten
C16_Witness ==
  /\ PreparationRan
  /\ Cardinality(hybridPredicates) = 2
  /\ \E i \in QueryCalls :
       /\ callRet[i].arg = callArg.tp
       /\ callRet[i].ret # callRet[i].arg

\* C17: hybridPredQueryPreparation applied to its own result returns that
\* result, and hybridPredicatePreparation applied to a prepared store
\* returns the rule set and the derived set the store already has.
C17_PreparationIdempotent ==
  Prepared =>
    /\ \A i, j \in QueryCalls : i < j => callRet[j].ret = callRet[i].ret
    /\ \A i \in Calls("hybridPredicatePreparation") :
         /\ callRet[i].ret.derived = derivedPredicates
         /\ callRet[i].ret.rules = Contents(ruleHeap, idb)

(***************************************************************************)
(* What a query leaves on the store: checked under SpecConj.               *)
(***************************************************************************)
\* C18: per-query state is owned by the query: once the query's iterator is
\* exhausted the store holds nothing from it, store.queryNetworks is what
\* it was before the query (empty on a new store).
C18_QueryLeavesNothingOnStore ==
  (pc = "conj" /\ stack = << >>) => queryNetworks = << >>

(***************************************************************************)
(* GetArgs: checked under SpecTerm.                                        *)
(***************************************************************************)
\* C19: GetArgs(L, secondOrder) has a Variable or BNode in the operator
\* position of a generic triple, or in the class position of a type triple,
\* among the arguments iff secondOrder is true; with secondOrder false the
\* arguments are [subject, object], and [subject] for a type triple.
C19_SecondOrderTogglesOperator ==
  pc = "termDone" =>
    LET t == callArg.term
        subject == t.arg[1]
        object == t.arg[2]
        ret == callRet[1].ret IN
    IF t.op = RDFtype
    THEN ret = IF callArg.secondOrder /\ IsVariableOrBNode(object)
               THEN << subject, object >> ELSE << subject >>
    ELSE ret = IF callArg.secondOrder /\ IsVariableOrBNode(t.op)
               THEN << t.op, subject, object >> ELSE << subject, object >>

(***************************************************************************)
(* The isHead mark: checked under SpecSip.                                 *)
(***************************************************************************)
\* C20: the isHead mark is transient: once BuildNaturalSIP has returned or
\* raised, rejected orderings included, no literal of the clause carries
\* isHead.
C20_IsHeadTransient ==
  Ended => isHead = {}

(***************************************************************************)
(* The batch_unification flag: checked under SpecConj.                     *)
(***************************************************************************)
\* C21: batch_unification is False only while a batch_unify evaluation over
\* derived predicates is in progress: whenever no batch_unify iterator is
\* active, the last one consumed to its end or dropped by its consumer
\* after some answers, batch_unification is True.
C21_FlagTrueWhenNoIteratorActive ==
  /\ batch.state # "suspended" => batch_unification = TRUE
  /\ batch_unification = FALSE => BatchDerived

(***************************************************************************)
(* ASK queries: checked under SpecAsk.                                     *)
(***************************************************************************)
AskEnded == pc \in {"askDone", "askRaised"}
BaseHolds ==
  groundConjunct = << >> \/ JointSolutions(groundConjunct, edb) # {}
Proved(goal) == Solutions(goal, entailed) # {}
DerivedCalls == Calls("invokeDecisionProcedure")

\* C22: for an ASK query over a basic graph pattern with derived predicates
\* sparql_query answers true iff the base conjunct, if any, is true and
\* every derived literal is proved; the base conjunct is evaluated first,
\* no derived goal is evaluated once it has failed, and evaluation stops at
\* the first derived literal that is not proved.
C22_AskAnswer ==
  pc \in {"ask", "askDerived", "askDone", "askRaised"} =>
    /\ AskEnded =>
         /\ ask.exc = "none"
         /\ ask.result = "True" <=>
              /\ BaseHolds
              /\ \A i \in DOMAIN derivedConjunct :
                   Proved(hybridPredQueryPreparation(derivedConjunct[i],
                                                     hybridPredicates))
    /\ \A i \in Calls("EDBQuery.evaluate") : i = 1
    /\ (groundConjunct # << >> /\ callRet # << >>) =>
         callRet[1].fn = "EDBQuery.evaluate"
    /\ ~BaseHolds => DerivedCalls = {}
    /\ \A i, j \in DerivedCalls : i < j => Proved(callRet[i].arg)

(***************************************************************************)
(* Termination of the ordering search: checked under SpecSipLive.          *)
(***************************************************************************)
InLoop == pc \in {"next", "fold"}
LoopEnded ==
  \/ pc = "finish" /\ sipIdx \in DOMAIN sips /\ bodyOrder = sips[sipIdx]
  \/ pc = "raised" /\ exc = "InvalidSIPException" /\ sipIdx = Len(sips)
LoopLeft == pc \in {"finish", "returned", "raised"}

\* C23: findFullSip yields finitely many orderings and the ordering search
\* of BuildNaturalSIP terminates, with a chosen body order or with
\* InvalidSIPException after the last ordering; once an ordering is
\* accepted none is requested again.
C23_SearchTerminates ==
  /\ [](sipIdx <= Len(sips))
  /\ InLoop ~> LoopEnded
  /\ [][LoopLeft => (sipIdx' = sipIdx /\ bodyOrder' = bodyOrder
                     /\ pc' \in {"returned", "raised"})]_vars

\* an ordering was requested and rejected, the next request found the
\* iterator exhausted, and the search ended with InvalidSIPException
C23_Witness ==
  /\ clause.bodyIsAnd /\ ignoreUnboundDPreds
  /\ pc = "raised" /\ exc = "InvalidSIPException"
  /\ sipIdx >= 1 /\ sipIdx = Len(sips)

====
